---- MODULE Spec2Model ----
(***************************************************************************)
(* Vehicle inspection checks: the Express controller (createCheck,         *)
(* getChecks, deleteCheck), the check service and validator it calls, and  *)
(* the React CheckForm that posts to it.                                   *)
(***************************************************************************)
EXTENDS Integers, Sequences, FiniteSets, TLC

(* ------------------------------ bounds --------------------------------- *)
MaxChecks == 3      \* ids the service may hand out in one run
MaxClock == 1       \* distinct clock readings
MaxSubmits == 2     \* submissions of the form in one run

(* --------------------------- program constants -------------------------- *)
CHECK_ITEMS == <<"TYRES", "BRAKES", "LIGHTS", "OIL", "COOLANT">>

MaxNoteChars == 300

KnownVehicles == {"VH001", "VH002"}

(* ------------------------------ JS values ------------------------------- *)
\* a number: finite with a value, or NaN
Num(n) == [finite |-> TRUE, val |-> n]
NaN == [finite |-> FALSE, val |-> 0]

\* an optional string of characters: undefined, or a sequence of characters
Undefined == [present |-> FALSE, text |-> <<>>]
Str(s) == [present |-> TRUE, text |-> s]

\* a query or path parameter: undefined, one string, or a repeated parameter
QUndef == [kind |-> "undefined", val |-> ""]
QStr(s) == [kind |-> "string", val |-> s]
QArr == [kind |-> "array", val |-> ""]

Range(s) == {s[i] : i \in 1..Len(s)}

RECURSIVE Rev(_)
Rev(s) == IF s = <<>> THEN <<>> ELSE Append(Rev(Tail(s)), Head(s))

RECURSIVE SelectSeqBy(_, _, _)
\* s.filter(c => c.vehicleId === v && (!useIssue || c.hasIssue === issue))
SelectSeqBy(s, v, f) ==
  IF s = <<>> THEN <<>>
  ELSE LET h == Head(s)
           keep == h.vehicleId = v /\ (f.use => h.hasIssue = f.val)
       IN  IF keep THEN <<h>> \o SelectSeqBy(Tail(s), v, f)
           ELSE SelectSeqBy(Tail(s), v, f)

(* ------------------------------- items ---------------------------------- *)
Item(k, st) == [key |-> k, status |-> st]

ItemsWith(failing) ==
  [i \in 1..Len(CHECK_ITEMS) |->
     Item(CHECK_ITEMS[i], IF CHECK_ITEMS[i] \in failing THEN "FAIL" ELSE "OK")]

AllOK == ItemsWith({})
BrakesFail == ItemsWith({"BRAKES"})
AllFail == ItemsWith(Range(CHECK_ITEMS))

\* malformed item lists a client can send
MissingCoolant == SubSeq(AllOK, 1, 4)
DuplicateTyres == [AllOK EXCEPT ![2] = Item("TYRES", "FAIL")]
UnknownCategory == [AllOK EXCEPT ![5] = Item("WIPERS", "OK")]
BadStatus == [AllOK EXCEPT ![3] = Item("LIGHTS", "fail")]

(* ------------------------------ validator ------------------------------- *)
Problem(f, r) == [field |-> f, reason |-> r]

ItemsOk(items) ==
  /\ Len(items) = Len(CHECK_ITEMS)
  /\ {items[i].key : i \in 1..Len(items)} = Range(CHECK_ITEMS)
  /\ \A i \in 1..Len(items) : items[i].status \in {"OK", "FAIL"}

\* validateCheckRequest(body): the list of {field, reason} problems, in
\* field-declaration order; empty when the body is acceptable
validateCheckRequest(body) ==
  (IF body.vehicleId = "" THEN <<Problem("vehicleId", "is required")>>
   ELSE IF body.vehicleId \notin KnownVehicles
        THEN <<Problem("vehicleId", "not found")>>
        ELSE <<>>)
  \o
  (IF ~body.odometerKm.finite THEN <<Problem("odometerKm", "must be a number")>>
   ELSE IF body.odometerKm.val <= 0
        THEN <<Problem("odometerKm", "must be > 0")>>
        ELSE <<>>)
  \o
  (IF ItemsOk(body.items) THEN <<>>
   ELSE <<Problem("items", "must contain each required item once")>>)
  \o
  (IF body.note.present /\ Len(body.note.text) > MaxNoteChars
   THEN <<Problem("note", "must be at most 300 characters")>>
   ELSE <<>>)

(* ------------------------------- state ---------------------------------- *)
VARIABLES
  store,            \* the service's collection of checks, in insertion order
  nextId,           \* the next identity the service hands out
  everStored,       \* every id that was ever in the collection
  clock,            \* the current time
  req,              \* the request the controller handled last
  res,              \* the response it sent
  calls,            \* the checkService functions it called for that request
  repeatsDelete,    \* that request was a DELETE of the id the request before it removed
  vehicles,         \* CheckForm: vehicles loaded by getVehicles
  selectedVehicle,  \* CheckForm state
  odometerKm,
  items,
  note,
  loading,
  error,
  validationErrors,
  toasts,           \* showToast calls made by the submit in progress or last finished
  onSuccessCalls,   \* onSuccess calls made by that submit
  flight,           \* the createCheck request of the form, if any
  submits,          \* how many times the form was submitted
  outcome           \* how api.createCheck settled for the last submit

serverVars == <<store, nextId, everStored, clock, req, res, calls, repeatsDelete>>
formVars == <<vehicles, selectedVehicle, odometerKm, items, note, loading,
              error, validationErrors, toasts, onSuccessCalls, flight, submits, outcome>>
vars == <<store, nextId, everStored, clock, req, res, calls, repeatsDelete,
          vehicles, selectedVehicle, odometerKm, items, note, loading,
          error, validationErrors, toasts, onSuccessCalls, flight, submits, outcome>>

(* -------------------------- requests, responses ------------------------- *)
NoBody == [vehicleId |-> "", odometerKm |-> NaN, items |-> <<>>, note |-> Undefined]
IdMissing == [kind |-> "undefined", val |-> 0]
IdParam(n) == [kind |-> "string", val |-> n]
NoFilter == [use |-> FALSE, val |-> FALSE]

PostReq(body) ==
  [op |-> "POST", body |-> body, vehicleId |-> QUndef, hasIssue |-> QUndef, id |-> IdMissing]
GetReq(v, h) ==
  [op |-> "GET", body |-> NoBody, vehicleId |-> v, hasIssue |-> h, id |-> IdMissing]
DeleteReq(id) ==
  [op |-> "DELETE", body |-> NoBody, vehicleId |-> QUndef, hasIssue |-> QUndef, id |-> id]
NoReq ==
  [op |-> "NONE", body |-> NoBody, vehicleId |-> QUndef, hasIssue |-> QUndef, id |-> IdMissing]

NoCheck ==
  [id |-> 0, vehicleId |-> "", odometerKm |-> NaN, items |-> <<>>, note |-> Undefined,
   hasIssue |-> FALSE, createdAt |-> 0]
NoError == [code |-> "", message |-> "", details |-> <<>>]

\* res.status(st).json({error: {code, message, details}})
ErrorResponse(st, code, message, details) ==
  [status |-> st, kind |-> "error", check |-> NoCheck,
   error |-> [code |-> code, message |-> message, details |-> details], list |-> <<>>]
\* res.status(st).json(check)
CheckResponse(st, check) ==
  [status |-> st, kind |-> "check", check |-> check, error |-> NoError, list |-> <<>>]
\* res.json(checks): status 200
ListResponse(checks) ==
  [status |-> 200, kind |-> "list", check |-> NoCheck, error |-> NoError, list |-> checks]
\* res.status(st).send()
EmptyResponse(st) ==
  [status |-> st, kind |-> "empty", check |-> NoCheck, error |-> NoError, list |-> <<>>]
NoResponse == EmptyResponse(0)

(* ----------------------------- check service ---------------------------- *)
StoredIds(st) == {st[i].id : i \in 1..Len(st)}

\* hasIssue computed with every() where some() is meant
HasIssueOf_every(its) == \A i \in 1..Len(its) : its[i].status = "FAIL"

\* hasIssue: at least one item failed
HasIssueOf(its) == \E i \in 1..Len(its) : its[i].status = "FAIL"

\* an identity derived from the size of the collection
FreshId_size(st, counter) == Len(st) + 1

\* the identity of the next created check
FreshId(st, counter) == counter

\* checkService.createCheck(data): the record that is stored and returned
NewCheck(data, id, now) ==
  [id |-> id, vehicleId |-> data.vehicleId, odometerKm |-> data.odometerKm,
   items |-> data.items, note |-> data.note,
   hasIssue |-> HasIssueOf(data.items), createdAt |-> now]

RECURSIVE InsertByCreatedAt(_, _)
\* place c after every element that is at least as new (stable)
InsertByCreatedAt(c, sorted) ==
  IF sorted = <<>> THEN <<c>>
  ELSE IF Head(sorted).createdAt >= c.createdAt
       THEN <<Head(sorted)>> \o InsertByCreatedAt(c, Tail(sorted))
       ELSE <<c>> \o sorted

RECURSIVE SortNewestFirst(_)
\* stable sort by createdAt descending
SortNewestFirst(s) ==
  IF s = <<>> THEN <<>>
  ELSE InsertByCreatedAt(s[Len(s)], SortNewestFirst(SubSeq(s, 1, Len(s) - 1)))

\* getChecks that filters but leaves the records in insertion order
ServiceGetChecks_unsorted(st, filters) ==
  SelectSeqBy(st, filters.vehicleId, filters.hasIssue)

\* checkService.getChecks(filters) on the collection st
ServiceGetChecks(st, filters) ==
  SortNewestFirst(Rev(SelectSeqBy(st, filters.vehicleId, filters.hasIssue)))

RECURSIVE RemoveById(_, _)
RemoveById(st, id) ==
  IF st = <<>> THEN <<>>
  ELSE IF Head(st).id = id THEN RemoveById(Tail(st), id)
       ELSE <<Head(st)>> \o RemoveById(Tail(st), id)

\* checkService.deleteCheck(id): whether a record was removed
ServiceDeleteRemoved(st, id) == id \in StoredIds(st)

(* ------------------------------ controller ------------------------------ *)
\* the controller has handled request rq and answered rs after the calls cs
Answered(rq, rs, cs) ==
  /\ req' = rq
  /\ res' = rs
  /\ calls' = cs
  /\ repeatsDelete' = (rq.op = "DELETE" /\ req.op = "DELETE" /\ res.status = 204 /\ rq.id = req.id)

\* createCheck without the return after the 400: the service is still called
CreateCheckCtl_noReturn(body) ==
  LET errors == validateCheckRequest(body)
      rs == IF Len(errors) > 0
            THEN ErrorResponse(400, "VALIDATION_ERROR", "Invalid request", errors)
            ELSE CheckResponse(201, NewCheck(body, FreshId(store, nextId), clock))
  IN  /\ nextId <= MaxChecks
      /\ store' = Append(store, NewCheck(body, FreshId(store, nextId), clock))
      /\ nextId' = nextId + 1
      /\ everStored' = everStored \cup {FreshId(store, nextId)}
      /\ Answered(PostReq(body), rs, <<"createCheck">>)
      /\ UNCHANGED clock

\* createCheck that answers res.json(createdCheck) without status(201)
CreateCheckCtl_status200(body) ==
  LET errors == validateCheckRequest(body) IN
  IF Len(errors) > 0
  THEN /\ Answered(PostReq(body),
                   ErrorResponse(400, "VALIDATION_ERROR", "Invalid request", errors),
                   <<>>)
       /\ UNCHANGED <<store, nextId, everStored, clock>>
  ELSE /\ nextId <= MaxChecks
       /\ LET createdCheck == NewCheck(body, FreshId(store, nextId), clock) IN
          /\ store' = Append(store, createdCheck)
          /\ nextId' = nextId + 1
          /\ everStored' = everStored \cup {createdCheck.id}
          /\ Answered(PostReq(body), CheckResponse(200, createdCheck), <<"createCheck">>)
       /\ UNCHANGED clock

\* export const createCheck = (req, res) => ...   (POST /checks)
CreateCheckCtl(body) ==
  LET errors == validateCheckRequest(body) IN
  IF Len(errors) > 0
  THEN /\ Answered(PostReq(body),
                   ErrorResponse(400, "VALIDATION_ERROR", "Invalid request", errors),
                   <<>>)
       /\ UNCHANGED <<store, nextId, everStored, clock>>
  ELSE /\ nextId <= MaxChecks
       /\ LET createdCheck == NewCheck(body, FreshId(store, nextId), clock) IN
          /\ store' = Append(store, createdCheck)
          /\ nextId' = nextId + 1
          /\ everStored' = everStored \cup {createdCheck.id}
          /\ Answered(PostReq(body), CheckResponse(201, createdCheck), <<"createCheck">>)
       /\ UNCHANGED clock

\* filters built from the truthiness of the hasIssue parameter
FiltersOf_truthy(vehicleId, hasIssue) ==
  [vehicleId |-> vehicleId.val,
   hasIssue |-> IF hasIssue.kind # "undefined"
                THEN [use |-> TRUE, val |-> (hasIssue.kind = "array" \/ hasIssue.val # "")]
                ELSE NoFilter]

\* const filters = hasIssue !== undefined ? {vehicleId, hasIssue: hasIssue === "true"} : {vehicleId}
FiltersOf(vehicleId, hasIssue) ==
  [vehicleId |-> vehicleId.val,
   hasIssue |-> IF hasIssue.kind # "undefined"
                THEN [use |-> TRUE, val |-> (hasIssue.kind = "string" /\ hasIssue.val = "true")]
                ELSE NoFilter]

\* getChecks that only tests !vehicleId, not that it is a string
GetChecksCtl_noTypeCheck(vehicleId, hasIssue) ==
  /\ IF vehicleId.kind = "undefined" \/ (vehicleId.kind = "string" /\ vehicleId.val = "")
     THEN Answered(GetReq(vehicleId, hasIssue),
                   ErrorResponse(400, "VALIDATION_ERROR", "Invalid request",
                                 <<Problem("vehicleId", "is required")>>),
                   <<>>)
     ELSE Answered(GetReq(vehicleId, hasIssue),
                   ListResponse(ServiceGetChecks(store, FiltersOf(vehicleId, hasIssue))),
                   <<"getChecks">>)
  /\ UNCHANGED <<store, nextId, everStored, clock>>

\* export const getChecks = (req, res) => ...   (GET /checks)
GetChecksCtl(vehicleId, hasIssue) ==
  /\ IF vehicleId.kind # "string" \/ vehicleId.val = ""
     THEN Answered(GetReq(vehicleId, hasIssue),
                   ErrorResponse(400, "VALIDATION_ERROR", "Invalid request",
                                 <<Problem("vehicleId", "is required")>>),
                   <<>>)
     ELSE Answered(GetReq(vehicleId, hasIssue),
                   ListResponse(ServiceGetChecks(store, FiltersOf(vehicleId, hasIssue))),
                   <<"getChecks">>)
  /\ UNCHANGED <<store, nextId, everStored, clock>>

\* deleteCheck that ignores what the service returns
DeleteCheckCtl_always204(id) ==
  IF id.kind # "string"
  THEN /\ Answered(DeleteReq(id),
                   ErrorResponse(400, "VALIDATION_ERROR", "Invalid request",
                                 <<Problem("id", "is required")>>),
                   <<>>)
       /\ UNCHANGED <<store, nextId, everStored, clock>>
  ELSE /\ store' = RemoveById(store, id.val)
       /\ Answered(DeleteReq(id), EmptyResponse(204), <<"deleteCheck">>)
       /\ UNCHANGED <<nextId, everStored, clock>>

\* deleteCheck whose 404 names the id in details
DeleteCheckCtl_detail404(id) ==
  IF id.kind # "string"
  THEN /\ Answered(DeleteReq(id),
                   ErrorResponse(400, "VALIDATION_ERROR", "Invalid request",
                                 <<Problem("id", "is required")>>),
                   <<>>)
       /\ UNCHANGED <<store, nextId, everStored, clock>>
  ELSE LET deleted == ServiceDeleteRemoved(store, id.val) IN
       /\ store' = RemoveById(store, id.val)
       /\ IF ~deleted
          THEN Answered(DeleteReq(id),
                        ErrorResponse(404, "NOT_FOUND", "Check not found",
                                      <<Problem("id", "not found")>>),
                        <<"deleteCheck">>)
          ELSE Answered(DeleteReq(id), EmptyResponse(204), <<"deleteCheck">>)
       /\ UNCHANGED <<nextId, everStored, clock>>

\* export const deleteCheck = (req, res) => ...   (DELETE /checks/:id)
DeleteCheckCtl(id) ==
  IF id.kind # "string"
  THEN /\ Answered(DeleteReq(id),
                   ErrorResponse(400, "VALIDATION_ERROR", "Invalid request",
                                 <<Problem("id", "is required")>>),
                   <<>>)
       /\ UNCHANGED <<store, nextId, everStored, clock>>
  ELSE LET deleted == ServiceDeleteRemoved(store, id.val) IN
       /\ store' = RemoveById(store, id.val)
       /\ IF ~deleted
          THEN Answered(DeleteReq(id),
                        ErrorResponse(404, "NOT_FOUND", "Check not found", <<>>),
                        <<"deleteCheck">>)
          ELSE Answered(DeleteReq(id), EmptyResponse(204), <<"deleteCheck">>)
       /\ UNCHANGED <<nextId, everStored, clock>>

(* ------------------------------- clients -------------------------------- *)
GoodBody(v, its, n) ==
  [vehicleId |-> v, odometerKm |-> Num(15000), items |-> its, note |-> n]

LongNote == Str([i \in 1..(MaxNoteChars + 1) |-> "a"])

\* bodies a client posts directly
ValidBodies ==
  {GoodBody("VH001", AllOK, Undefined), GoodBody("VH001", BrakesFail, Undefined),
   GoodBody("VH002", AllFail, Str(<<"a">>))}

InvalidBodies ==
  {GoodBody("VH001", MissingCoolant, Undefined),
   GoodBody("", UnknownCategory, Undefined),
   GoodBody("VH001", BadStatus, LongNote),
   [GoodBody("VH001", BrakesFail, Undefined) EXCEPT !.odometerKm = Num(-5)],
   [vehicleId |-> "VH999", odometerKm |-> NaN, items |-> DuplicateTyres, note |-> LongNote]}

\* query strings a client sends to GET /checks: <<vehicleId, hasIssue>>
Queries ==
  {<<QUndef, QStr("true")>>, <<QStr(""), QUndef>>, <<QArr, QUndef>>, <<QStr("VH999"), QUndef>>}
  \cup {<<QStr("VH001"), h>> : h \in {QUndef, QStr("true"), QStr("false"), QStr("yes"), QArr}}
IdParams == {IdMissing} \cup {IdParam(n) : n \in 1..(MaxChecks + 1)}

PostChecks == \E body \in ValidBodies \cup InvalidBodies :
  CreateCheckCtl(body) /\ UNCHANGED formVars

GetChecks == \E q \in Queries :
  GetChecksCtl(q[1], q[2]) /\ UNCHANGED formVars

DeleteCheck == \E id \in IdParams :
  DeleteCheckCtl(id) /\ UNCHANGED formVars

\* time passes
Tick ==
  /\ clock < MaxClock
  /\ clock' = clock + 1
  /\ UNCHANGED <<store, nextId, everStored, req, res, calls, repeatsDelete>>
  /\ UNCHANGED formVars

(* -------------------------------- form ---------------------------------- *)
NoFlight == [phase |-> "none", body |-> NoBody]

Whitespace == {" "}

\* texts the user types into the note field
NoteTexts ==
  {<<>>, <<" ">>, <<" ", " ">>, <<"a">>, <<" ", "a">>, <<"a", " ">>,
   <<" ", "a", " ">>, <<"a", " ", "a">>}

\* texts the user types into the odometer field
OdometerTexts == {<<"5">>, <<"-", "5">>}

\* checklist rows the user clicks
EditKeys == {"BRAKES"}

\* vehicles the user picks in the selector
VehicleChoices == {"", "VH001"}

DigitValue(c) ==
  CASE c = "0" -> 0 [] c = "1" -> 1 [] c = "2" -> 2 [] c = "3" -> 3 [] c = "4" -> 4
    [] c = "5" -> 5 [] c = "6" -> 6 [] c = "7" -> 7 [] c = "8" -> 8 [] c = "9" -> 9
    [] OTHER -> -1

RECURSIVE ParseDigits(_, _)
\* the longest prefix of digits of s, read as a decimal number after acc
ParseDigits(s, acc) ==
  IF s = <<>> \/ DigitValue(Head(s)) < 0 THEN acc
  ELSE ParseDigits(Tail(s), 10 * acc + DigitValue(Head(s)))

\* parseFloat(text) on texts without a fraction: NaN unless digits follow the optional sign
ParseFloat(text) ==
  LET neg == text # <<>> /\ Head(text) = "-"
      digits == IF neg THEN Tail(text) ELSE text
  IN  IF digits = <<>> \/ DigitValue(Head(digits)) < 0 THEN NaN
      ELSE Num((IF neg THEN -1 ELSE 1) * ParseDigits(digits, 0))

RECURSIVE TrimStart(_)
TrimStart(s) ==
  IF s # <<>> /\ Head(s) \in Whitespace THEN TrimStart(Tail(s)) ELSE s

RECURSIVE TrimEnd(_)
TrimEnd(s) ==
  IF s # <<>> /\ s[Len(s)] \in Whitespace THEN TrimEnd(SubSeq(s, 1, Len(s) - 1)) ELSE s

\* String.prototype.trim
Trim(s) == TrimEnd(TrimStart(s))

\* the note sent as typed, without trim()
NoteField_raw(text) == IF text # <<>> THEN Str(text) ELSE Undefined

\* note: note.trim() ? note.trim() : undefined
NoteField(text) == IF Trim(text) # <<>> THEN Str(Trim(text)) ELSE Undefined

\* the argument of api.createCheck in handleSubmit
RequestBody ==
  [vehicleId |-> selectedVehicle, odometerKm |-> ParseFloat(odometerKm),
   items |-> items, note |-> NoteField(note)]

Toast(type, message) == [type |-> type, message |-> message]

\* errorResponse.error.details.map((d) => `${d.field}: ${d.reason}`)
DetailMessages(details) ==
  [i \in 1..Len(details) |-> <<details[i].field, ": ", details[i].reason>>]

\* useEffect: api.getVehicles().then(setVehicles)
LoadVehicles ==
  /\ vehicles = {}
  /\ vehicles' = KnownVehicles
  /\ UNCHANGED <<selectedVehicle, odometerKm, items, note, loading, error,
                 validationErrors, toasts, onSuccessCalls, flight, submits, outcome>>
  /\ UNCHANGED serverVars

\* onChange of the vehicle selector
SelectVehicle == \E v \in VehicleChoices :
  /\ v \in vehicles \cup {""}
  /\ selectedVehicle' = v
  /\ UNCHANGED <<vehicles, odometerKm, items, note, loading, error,
                 validationErrors, toasts, onSuccessCalls, flight, submits, outcome>>
  /\ UNCHANGED serverVars

\* onChange of the odometer input
EditOdometer == \E t \in OdometerTexts :
  /\ odometerKm' = t
  /\ UNCHANGED <<vehicles, selectedVehicle, items, note, loading, error,
                 validationErrors, toasts, onSuccessCalls, flight, submits, outcome>>
  /\ UNCHANGED serverVars

\* handleItemStatusChange(key, status)
HandleItemStatusChange == \E key \in EditKeys, status \in {"OK", "FAIL"} :
  /\ items' = [i \in 1..Len(items) |->
                 IF items[i].key = key THEN [items[i] EXCEPT !.status = status]
                 ELSE items[i]]
  /\ UNCHANGED <<vehicles, selectedVehicle, odometerKm, note, loading, error,
                 validationErrors, toasts, onSuccessCalls, flight, submits, outcome>>
  /\ UNCHANGED serverVars

\* onChange of the note textarea
EditNote == \E t \in NoteTexts :
  /\ Len(t) <= MaxNoteChars
  /\ note' = t
  /\ UNCHANGED <<vehicles, selectedVehicle, odometerKm, items, loading, error,
                 validationErrors, toasts, onSuccessCalls, flight, submits, outcome>>
  /\ UNCHANGED serverVars

\* handleSubmit up to the await: the browser submits only when the button is
\* enabled and the required fields are filled
HandleSubmit ==
  /\ ~loading
  /\ submits < MaxSubmits
  /\ submits' = submits + 1
  /\ selectedVehicle # ""
  /\ odometerKm # <<>>
  /\ error' = ""
  /\ validationErrors' = <<>>
  /\ loading' = TRUE
  /\ flight' = [phase |-> "sent", body |-> RequestBody]
  /\ toasts' = <<>>
  /\ onSuccessCalls' = 0
  /\ outcome' = "pending"
  /\ UNCHANGED <<vehicles, selectedVehicle, odometerKm, items, note>>
  /\ UNCHANGED serverVars

\* handleSubmit with the form reset moved into the finally block
RequestSettles_resetAlways ==
  /\ flight.phase = "sent"
  /\ CreateCheckCtl(flight.body)
  /\ flight' = NoFlight
  /\ loading' = FALSE
  /\ UNCHANGED submits
  /\ outcome' = IF res'.status = 201 THEN "resolved" ELSE "rejected"
  /\ selectedVehicle' = ""
  /\ odometerKm' = <<>>
  /\ note' = <<>>
  /\ items' = [i \in 1..Len(CHECK_ITEMS) |-> Item(CHECK_ITEMS[i], "OK")]
  /\ IF res'.status = 201
     THEN /\ toasts' = Append(toasts, Toast("success", <<"Check submitted successfully!">>))
          /\ onSuccessCalls' = onSuccessCalls + 1
          /\ UNCHANGED <<vehicles, error, validationErrors>>
     ELSE LET messages == DetailMessages(res'.error.details) IN
          /\ validationErrors' = messages
          /\ toasts' = Append(toasts, Toast("error", <<"Validation error: ">> \o messages))
          /\ UNCHANGED <<vehicles, error, onSuccessCalls>>

\* the server handles the request and handleSubmit resumes after the await
RequestSettles ==
  /\ flight.phase = "sent"
  /\ CreateCheckCtl(flight.body)
  /\ flight' = NoFlight
  /\ loading' = FALSE
  /\ UNCHANGED submits
  /\ outcome' = IF res'.status = 201 THEN "resolved" ELSE "rejected"
  /\ IF res'.status = 201
     THEN /\ toasts' = Append(toasts, Toast("success", <<"Check submitted successfully!">>))
          /\ selectedVehicle' = ""
          /\ odometerKm' = <<>>
          /\ note' = <<>>
          /\ items' = [i \in 1..Len(CHECK_ITEMS) |-> Item(CHECK_ITEMS[i], "OK")]
          /\ onSuccessCalls' = onSuccessCalls + 1
          /\ UNCHANGED <<vehicles, error, validationErrors>>
     ELSE LET messages == DetailMessages(res'.error.details) IN
          /\ validationErrors' = messages
          /\ toasts' = Append(toasts, Toast("error", <<"Validation error: ">> \o messages))
          /\ UNCHANGED <<vehicles, selectedVehicle, odometerKm, items, note, error,
                         onSuccessCalls>>

\* handleSubmit with setLoading(false) at the end of the try instead of in finally
RequestFails_noFinally ==
  /\ flight.phase = "sent"
  /\ flight' = NoFlight
  /\ outcome' = "failed"
  /\ error' = "Failed to submit check. Please try again."
  /\ toasts' = Append(toasts, Toast("error", <<"Failed to submit check. Please try again.">>))
  /\ UNCHANGED <<vehicles, selectedVehicle, odometerKm, items, note, loading,
                 validationErrors, onSuccessCalls, submits>>
  /\ UNCHANGED serverVars

\* the request fails without an error body and handleSubmit resumes in the catch
RequestFails ==
  /\ flight.phase = "sent"
  /\ flight' = NoFlight
  /\ loading' = FALSE
  /\ outcome' = "failed"
  /\ error' = "Failed to submit check. Please try again."
  /\ toasts' = Append(toasts, Toast("error", <<"Failed to submit check. Please try again.">>))
  /\ UNCHANGED <<vehicles, selectedVehicle, odometerKm, items, note,
                 validationErrors, onSuccessCalls, submits>>
  /\ UNCHANGED serverVars

FormInit ==
  /\ vehicles = {}
  /\ selectedVehicle = ""
  /\ odometerKm = <<>>
  /\ items = AllOK
  /\ note = <<>>
  /\ loading = FALSE
  /\ error = ""
  /\ validationErrors = <<>>
  /\ toasts = <<>>
  /\ onSuccessCalls = 0
  /\ flight = NoFlight
  /\ submits = 0
  /\ outcome = "none"

ServerInit ==
  /\ store = <<>>
  /\ nextId = 1
  /\ everStored = {}
  /\ clock = 0
  /\ req = NoReq
  /\ res = NoResponse
  /\ calls = <<>>
  /\ repeatsDelete = FALSE

Init == ServerInit /\ FormInit

Next == PostChecks \/ GetChecks \/ DeleteCheck \/ Tick

Spec == Init /\ [][Next]_vars

FormNext ==
  \/ LoadVehicles \/ SelectVehicle \/ EditOdometer \/ HandleItemStatusChange
  \/ EditNote \/ HandleSubmit \/ RequestSettles \/ RequestFails

FormSpec == Init /\ [][FormNext]_vars

\* a request in flight does not stay pending for ever: it is answered or it
\* fails. RequestFails is enabled exactly while a request is in flight, so weak
\* fairness on it says no more than that the request settles one way or the other
FormFairSpec == FormSpec /\ WF_vars(RequestFails)

(* ------------------------------ properties ------------------------------ *)
FailCount(its) == Cardinality({j \in 1..Len(its) : its[j].status = "FAIL"})

PositionOf(id) == CHOOSE i \in 1..Len(store) : store[i].id = id

RecordsFor(v) == {store[i] : i \in {j \in 1..Len(store) : store[j].vehicleId = v}}

QueryVehicles == KnownVehicles \cup {"VH999"}

IsMissing(q) == q.kind # "string" \/ q.val = ""

\* the step is the controller handling a request
RequestStep ==
  /\ clock' = clock
  /\ <<store, nextId, req, res, calls, repeatsDelete>>' # <<store, nextId, req, res, calls, repeatsDelete>>

\* C1: every stored record has hasIssue = true exactly when at least one of
\* its five items has status FAIL
C1_HasIssueIffAnyFail ==
  \A i \in 1..Len(store) :
    /\ Len(store[i].items) = 5
    /\ store[i].hasIssue = (FailCount(store[i].items) >= 1)

C1_Witness ==
  /\ \E i \in 1..Len(store) : FailCount(store[i].items) = 0 /\ ~store[i].hasIssue
  /\ \E i \in 1..Len(store) : FailCount(store[i].items) = 1 /\ store[i].hasIssue
  /\ everStored # StoredIds(store)

\* C2: a POST /checks whose body the validator rejects is answered 400 with
\* code VALIDATION_ERROR and exactly the validator's problems as details,
\* createCheck of the service is not called and the store does not change
C2_InvalidPostRejected ==
  [][(RequestStep /\ req'.op = "POST" /\ validateCheckRequest(req'.body) # <<>>)
       => /\ res'.status = 400
          /\ res'.kind = "error"
          /\ res'.error.code = "VALIDATION_ERROR"
          /\ res'.error.message # ""
          /\ res'.error.details = validateCheckRequest(req'.body)
          /\ "createCheck" \notin Range(calls')
          /\ store' = store]_vars

C2_Witness ==
  /\ req.op = "POST"
  /\ res.status = 400
  /\ Len(res.error.details) >= 2
  /\ calls = <<>>
  /\ Len(store) >= 1

\* C3: a POST /checks whose body the validator accepts calls createCheck of
\* the service exactly once, adds exactly one record to the store and is
\* answered 201 with the stored record, which carries id, hasIssue and createdAt
C3_ValidPostCreates ==
  [][(RequestStep /\ req'.op = "POST" /\ validateCheckRequest(req'.body) = <<>>)
       => /\ calls' = <<"createCheck">>
          /\ Len(store') = Len(store) + 1
          /\ SubSeq(store', 1, Len(store)) = store
          /\ res'.status = 201
          /\ res'.kind = "check"
          /\ res'.check = store'[Len(store')]
          /\ res'.check.id \notin StoredIds(store)
          /\ res'.check.createdAt = clock
          /\ res'.check.hasIssue \in BOOLEAN
          /\ res'.check.vehicleId = req'.body.vehicleId
          /\ res'.check.items = req'.body.items]_vars

C3_Witness ==
  /\ req.op = "POST"
  /\ res.status = 201
  /\ Len(store) = 2
  /\ res.check = store[2]
  /\ res.check.id = 2

\* C4: DELETE /checks/:id for an id in the store removes that record and
\* answers 204 with an empty body; the same DELETE again, right after it,
\* removes nothing and answers 404 with code NOT_FOUND and empty details
C4_DeleteTwice ==
  /\ [][(RequestStep /\ req'.op = "DELETE" /\ req'.id.kind = "string"
           /\ req'.id.val \in StoredIds(store))
          => /\ res'.status = 204
             /\ res'.kind = "empty"
             /\ StoredIds(store') = StoredIds(store) \ {req'.id.val}
             /\ Len(store') = Len(store) - 1]_vars
  /\ [][(RequestStep /\ req'.op = "DELETE" /\ req.op = "DELETE"
           /\ res.status = 204 /\ req'.id = req.id)
          => /\ res'.status = 404
             /\ res'.kind = "error"
             /\ res'.error.code = "NOT_FOUND"
             /\ res'.error.message # ""
             /\ res'.error.details = <<>>
             /\ store' = store]_vars

C4_Witness ==
  /\ repeatsDelete
  /\ req.op = "DELETE"
  /\ req.id.val \in everStored
  /\ res.status = 404
  /\ Len(store) >= 1

\* C5: GET /checks without a vehicleId that is one non-empty string is
\* answered 400 VALIDATION_ERROR with details [vehicleId: is required] and
\* getChecks of the service is not called; with such a vehicleId it is
\* answered 200 with a list, which is empty when no stored record matches
C5_GetRequiresVehicleId ==
  req.op = "GET" =>
    IF IsMissing(req.vehicleId)
    THEN /\ res.status = 400
         /\ res.kind = "error"
         /\ res.error.code = "VALIDATION_ERROR"
         /\ res.error.details = <<[field |-> "vehicleId", reason |-> "is required"]>>
         /\ "getChecks" \notin Range(calls)
    ELSE /\ res.status = 200
         /\ res.kind = "list"
         /\ (RecordsFor(req.vehicleId.val) = {} => res.list = <<>>)

C5_Witness ==
  /\ req.op = "GET"
  /\ req.vehicleId = QArr
  /\ res.status = 400
  /\ Len(store) >= 1

\* the list is newest first, and of two records created at the same time the
\* one inserted later comes first
NewestFirst(list) ==
  \A i, j \in 1..Len(list) :
    i < j =>
      /\ list[i].createdAt >= list[j].createdAt
      /\ list[i].createdAt = list[j].createdAt
           => PositionOf(list[i].id) > PositionOf(list[j].id)

FilterChoices == {NoFilter, [use |-> TRUE, val |-> TRUE], [use |-> TRUE, val |-> FALSE]}

\* C6: whatever creates and deletes led to the store, the list for a
\* vehicleId is sorted by createdAt descending, records with equal createdAt
\* in reverse insertion order
C6_ListNewestFirst ==
  /\ \A v \in QueryVehicles, f \in FilterChoices :
       LET list == ServiceGetChecks(store, [vehicleId |-> v, hasIssue |-> f]) IN
       /\ NewestFirst(list)
       /\ Len(list) = Cardinality(Range(list))
  /\ (req.op = "GET" /\ res.status = 200) => NewestFirst(res.list)

C6_Witness ==
  /\ req.op = "GET"
  /\ res.status = 200
  /\ Len(res.list) = 2
  /\ res.list[1].createdAt = res.list[2].createdAt
  /\ res.list[1].id > res.list[2].id
  /\ everStored # StoredIds(store)

\* what a 200 answer to GET /checks must contain for the hasIssue parameter h
Matching(v, h) ==
  IF h.kind = "undefined" THEN RecordsFor(v)
  ELSE {c \in RecordsFor(v) : c.hasIssue = (h = QStr("true"))}

Unfiltered(v) == ServiceGetChecks(store, [vehicleId |-> v, hasIssue |-> NoFilter])

\* C7 as stated: the list filtered by hasIssue=true is a strict subset of the
\* unfiltered list for that vehicleId and holds only records with hasIssue true
C7_Original ==
  (req.op = "GET" /\ res.status = 200 /\ req.hasIssue = QStr("true")) =>
    /\ Range(res.list) \subseteq Range(Unfiltered(req.vehicleId.val))
    /\ Range(res.list) # Range(Unfiltered(req.vehicleId.val))
    /\ \A i \in 1..Len(res.list) : res.list[i].hasIssue

\* C7 (amended): the list filtered by hasIssue=true is a subset of the
\* unfiltered list for that vehicleId, strict exactly when that list has a
\* record without an issue, and holds only records with hasIssue true; without
\* the hasIssue parameter every record of the vehicleId is listed, with it
\* exactly the records whose hasIssue equals (hasIssue === "true")
C7_FilterByHasIssue ==
  (req.op = "GET" /\ res.status = 200) =>
    LET v == req.vehicleId.val
        all == Range(Unfiltered(v))
    IN  /\ Range(res.list) = Matching(v, req.hasIssue)
        /\ Len(res.list) = Cardinality(Range(res.list))
        /\ Range(res.list) \subseteq all
        /\ req.hasIssue = QStr("true") =>
             /\ \A i \in 1..Len(res.list) : res.list[i].hasIssue
             /\ (Range(res.list) # all) = (\E c \in all : ~c.hasIssue)

C7_Witness ==
  /\ req.op = "GET"
  /\ res.status = 200
  /\ req.hasIssue = QStr("true")
  /\ Len(res.list) = 1
  /\ Cardinality(RecordsFor(req.vehicleId.val)) = 2

\* C8: an error answer with code VALIDATION_ERROR has a non-empty details
\* list whose entries name a field of the request and a reason; an error
\* answer with code NOT_FOUND has an empty details list
C8_ErrorDetails ==
  res.kind = "error" =>
    /\ res.error.code \in {"VALIDATION_ERROR", "NOT_FOUND"}
    /\ res.error.code = "VALIDATION_ERROR" =>
         /\ res.status = 400
         /\ res.error.details # <<>>
         /\ \A i \in 1..Len(res.error.details) :
              /\ res.error.details[i].reason # ""
              /\ res.error.details[i].field \in
                   (CASE req.op = "POST" -> {"vehicleId", "odometerKm", "items", "note"}
                      [] req.op = "GET" -> {"vehicleId"}
                      [] OTHER -> {"id"})
    /\ res.error.code = "NOT_FOUND" =>
         /\ res.status = 404
         /\ res.error.details = <<>>

C8_Witness ==
  /\ res.kind = "error"
  /\ res.error.code = "NOT_FOUND"
  /\ req.id.val \notin everStored
  /\ Len(store) = 2

\* C9: create assigns an id that is not and never was in the store: no two
\* stored records share an id, and a deleted record never becomes present again
C9_FreshIds ==
  /\ [](Cardinality(StoredIds(store)) = Len(store) /\ StoredIds(store) \subseteq everStored)
  /\ [][\A id \in StoredIds(store') \ StoredIds(store) : id \notin everStored]_vars

C9_Witness ==
  /\ Len(store) = 1
  /\ Cardinality(everStored) = 2
  /\ \A id \in everStored \ StoredIds(store) : id < store[1].id

AllWhitespace(t) == \A i \in 1..Len(t) : t[i] \in Whitespace

\* the note n sent for the text typed into the note field
TrimmedOf(text, n) ==
  /\ n # Str(<<>>)
  /\ AllWhitespace(text) <=> (n = Undefined)
  /\ ~AllWhitespace(text) =>
       /\ n.present
       /\ n.text[1] \notin Whitespace
       /\ n.text[Len(n.text)] \notin Whitespace
       /\ \E a, b \in 0..Len(text) :
            /\ a + Len(n.text) + b = Len(text)
            /\ AllWhitespace(SubSeq(text, 1, a))
            /\ SubSeq(text, a + 1, a + Len(n.text)) = n.text
            /\ AllWhitespace(SubSeq(text, Len(text) - b + 1, Len(text)))

\* C10: the request the form sends never has an empty note: it carries the
\* note text without its leading and trailing whitespace when that is not
\* empty, and no note when the text is empty or only whitespace
C10_NoteTrimmed ==
  [][(flight.phase = "none" /\ flight'.phase = "sent")
       => TrimmedOf(note, flight'.body.note)]_vars

C10_Witness ==
  /\ flight.phase = "sent"
  /\ note = <<" ", "a", " ">>
  /\ flight.body.note = Str(<<"a">>)
  /\ submits = 2

\* the createCheck request of the form settles in this step
Settles == flight.phase = "sent" /\ flight'.phase = "none"

\* C11: the form is reset exactly when the createCheck request succeeds: then
\* selectedVehicle, odometerKm and note become empty, the five items become
\* OK, one success toast is shown and onSuccess is called once; when it fails
\* the four fields stay as they are, onSuccess is not called and exactly one
\* error toast is shown, built from the field: reason messages when the error
\* has details and the generic failure message otherwise
C11_ResetIffSuccess ==
  [][Settles =>
       /\ outcome' \in {"resolved", "rejected", "failed"}
       /\ outcome' = "resolved" =>
            /\ selectedVehicle' = ""
            /\ odometerKm' = <<>>
            /\ note' = <<>>
            /\ Len(items') = 5
            /\ \A i \in 1..5 : items'[i] = [key |-> CHECK_ITEMS[i], status |-> "OK"]
            /\ toasts' = <<[type |-> "success", message |-> <<"Check submitted successfully!">>]>>
            /\ onSuccessCalls' = 1
       /\ outcome' # "resolved" =>
            /\ UNCHANGED <<selectedVehicle, odometerKm, note, items>>
            /\ onSuccessCalls' = 0
            /\ Len(toasts') = 1
            /\ toasts'[1].type = "error"
       /\ outcome' = "rejected" =>
            /\ Len(res'.error.details) >= 1
            /\ toasts'[1].message =
                 <<"Validation error: ">> \o
                 [i \in 1..Len(res'.error.details) |->
                    <<res'.error.details[i].field, ": ", res'.error.details[i].reason>>]
       /\ outcome' = "failed" =>
            toasts'[1].message = <<"Failed to submit check. Please try again.">>]_vars

C11_Witness ==
  /\ outcome = "rejected"
  /\ flight.phase = "none"
  /\ Len(store) = 1
  /\ selectedVehicle = "VH001"
  /\ note = <<" ", "a">>
  /\ items = BrakesFail
  /\ Len(toasts) = 1
  /\ toasts[1].type = "error"

\* C12: over any sequence of form events loading is true exactly while a
\* createCheck request is in flight: it becomes true when handleSubmit starts,
\* no second request is issued while it is true, it is false again once the
\* request has settled, and it is false again and again, so that no request
\* leaves it true for ever
C12_LoadingWhileInFlight ==
  /\ [](loading <=> flight.phase = "sent")
  /\ [][(~loading /\ loading') => (submits' = submits + 1 /\ flight'.phase = "sent")]_vars
  /\ [][loading => (submits' = submits /\ flight' \in {flight, NoFlight})]_vars
  /\ [][Settles => ~loading']_vars
  /\ []<>(~loading)

C12_Witness ==
  /\ ~loading
  /\ submits = 2
  /\ outcome = "failed"
  /\ Len(store) = 1
  /\ selectedVehicle = "VH001"

====
